---- MODULE Spec2Model ----
(***************************************************************************)
(* Leaderboard web service (src/index.ts): a bootstrap that connects to    *)
(* the document store and then starts the HTTP server, a GET /leaderboard  *)
(* handler (find, sort by score descending, limit 10) and a                *)
(* PUT /leaderboard handler (type check of the body, then insertOne).      *)
(* Handlers are async: each suspends at its single store operation, so     *)
(* requests of different clients interleave at those points.               *)
(***************************************************************************)
EXTENDS Integers, Sequences, FiniteSets

VARIABLES
    boot,      \* position of the bootstrap function (async IIFE)
    routes,    \* routes registered on the server
    store,     \* the "leaderboard" collection, in natural (insertion) order
    req,       \* per client: the request in flight or last answered
    conn,      \* state of the store connection (MongoClient)
    store0,    \* history: the collection as the process found it
    inserted   \* history: number of insertOne calls that resolved

vars == <<boot, conn, routes, store, req, store0, inserted>>

(***************************************************************************)
(* Bounds of the model.                                                    *)
(***************************************************************************)
NumClients == 2     \* clients with at most one request in flight each
MaxInserts == 2     \* valid submissions accepted per run

Clients == 1..NumClients

(***************************************************************************)
(* JavaScript values as tagged records: t is what typeof yields for        *)
(* primitives, s / n carry the string / number.                            *)
(***************************************************************************)
Undefined == [t |-> "undefined", s |-> "", n |-> 0]
Str(x) == [t |-> "string", s |-> x, n |-> 0]
Num(k) == [t |-> "number", s |-> "", n |-> k]

TypeOf(v) == v.t

(***************************************************************************)
(* Request bodies as the framework hands them to the handler.  kind is     *)
(* "null" (JSON null, and a request without body: the framework leaves     *)
(* request.body null) or "object".  A property that is absent reads as     *)
(* Undefined.  rank stands for any property other than name and score.     *)
(***************************************************************************)
NullBody == [kind |-> "null", name |-> Undefined, score |-> Undefined, rank |-> Undefined]
Obj(name, score, rank) == [kind |-> "object", name |-> name, score |-> score, rank |-> rank]

Prop(body, field) ==
    IF body.kind # "object" THEN Undefined
    ELSE IF field = "name" THEN body.name
    ELSE IF field = "score" THEN body.score
    ELSE body.rank

Bodies ==
    { NullBody,
      Obj(Str("X"), Undefined, Undefined),
      Obj(Num(7), Num(50), Undefined),
      Obj(Str("Alice"), Num(50), Undefined),
      Obj(Str("Bob"), Num(90), Undefined),
      Obj(Str("Zed"), Num(-5), Num(1)) }

(***************************************************************************)
(* LeaderboardEntry, and the documents of the collection: an entry plus    *)
(* the identifier the store assigns.  rank is Undefined in every document  *)
(* the service writes.                                                     *)
(***************************************************************************)
Entry(name, score) == [name |-> Str(name), score |-> Num(score), rank |-> Undefined]
Doc(id, e) == [id |-> id, name |-> e.name, score |-> e.score, rank |-> e.rank]

RECURSIVE SeedFrom(_, _)
SeedFrom(entries, id) ==
    IF entries = <<>> THEN <<>>
    ELSE <<Doc(id, Head(entries))>> \o SeedFrom(Tail(entries), id + 1)

\* Collections left by earlier runs of the service.
Seed9 ==
    SeedFrom(<<Entry("Carol", 50), Entry("Dan", 100), Entry("Eve", 95),
               Entry("Dan", 90), Entry("Eve", 85), Entry("Dan", 80),
               Entry("Eve", 75), Entry("Dan", 70), Entry("Eve", 65)>>, 1)
Seed15 ==
    SeedFrom(<<Entry("P", 30), Entry("P", 150), Entry("P", 20), Entry("P", 140),
               Entry("P", 10), Entry("P", 130), Entry("P", 40), Entry("P", 120),
               Entry("P", 60), Entry("P", 110), Entry("P", 70), Entry("P", 100),
               Entry("P", 80), Entry("P", 5), Entry("P", 55)>>, 1)
Seeds == { <<>>, Seed9, Seed15 }

(***************************************************************************)
(* PUT handler, line 93: the body check.                                   *)
(***************************************************************************)
InvalidBodyNoScoreCheck(body) ==
    \/ body.kind = "null"
    \/ TypeOf(Prop(body, "name")) # "string"

InvalidBody(body) ==
    \/ body.kind = "null"
    \/ TypeOf(Prop(body, "name")) # "string"
    \/ TypeOf(Prop(body, "score")) # "number"

(***************************************************************************)
(* PUT handler, lines 104-107: the document handed to insertOne, and       *)
(* insertOne on the collection (a new document with a fresh identifier,    *)
(* appended in natural order).                                             *)
(***************************************************************************)
NewEntryClamped(body) ==
    [name |-> Prop(body, "name"),
     score |-> IF Prop(body, "score").n < 0 THEN Num(0) ELSE Prop(body, "score"),
     rank |-> Undefined]

NewEntry(body) ==
    [name |-> Prop(body, "name"), score |-> Prop(body, "score"), rank |-> Undefined]

Project(doc) == [name |-> doc.name, score |-> doc.score, rank |-> doc.rank]

InsertOneUnlessPresent(coll, e) ==
    IF \E i \in 1..Len(coll) : Project(coll[i]) = e THEN coll
    ELSE Append(coll, Doc(Len(coll) + 1, e))

InsertOneReplaceByName(coll, e) ==
    IF \E i \in 1..Len(coll) : coll[i].name = e.name
    THEN [i \in 1..Len(coll) |->
            IF coll[i].name = e.name THEN Doc(coll[i].id, e) ELSE coll[i]]
    ELSE Append(coll, Doc(Len(coll) + 1, e))

InsertOne(coll, e) == Append(coll, Doc(Len(coll) + 1, e))

(***************************************************************************)
(* GET handler, lines 62-66: find({}, {projection: {_id: 0}}), then        *)
(* sort({score: -1}), then limit(10), then toArray().  The store orders    *)
(* documents of equal score arbitrarily, so the sort yields a set of       *)
(* possible orders.                                                        *)
(***************************************************************************)
LimitCount == 10

Find(coll) == [i \in 1..Len(coll) |-> Project(coll[i])]

RECURSIVE OrdersAsc(_, _)
OrdersAsc(seq, S) ==
    IF S = {} THEN { <<>> }
    ELSE LET low == { i \in S : \A j \in S : seq[i].score.n <= seq[j].score.n }
         IN  UNION { { <<seq[i]>> \o r : r \in OrdersAsc(seq, S \ {i}) } : i \in low }

SortByScoreAsc(seq) == OrdersAsc(seq, DOMAIN seq)

RECURSIVE OrdersDesc(_, _)
OrdersDesc(seq, S) ==
    IF S = {} THEN { <<>> }
    ELSE LET top == { i \in S : \A j \in S : seq[j].score.n <= seq[i].score.n }
         IN  UNION { { <<seq[i]>> \o r : r \in OrdersDesc(seq, S \ {i}) } : i \in top }

SortByScoreDesc(seq) == OrdersDesc(seq, DOMAIN seq)

LimitOneShort(seq, n) == SubSeq(seq, 1, IF Len(seq) < n THEN Len(seq) - 1 ELSE n - 1)

LimitIgnored(seq, n) == seq

Limit(seq, n) == SubSeq(seq, 1, IF Len(seq) < n THEN Len(seq) ELSE n)

\* The arrays toArray() may resolve to.
ToArray(coll) == { Limit(s, LimitCount) : s \in SortByScoreDesc(Find(coll)) }

(***************************************************************************)
(* Responses.                                                              *)
(***************************************************************************)
NoResponse ==
    [statusCode |-> 0, error |-> "", message |-> "", hasResult |-> FALSE, result |-> <<>>]
\* lines 96-100
InvalidBodyError ==
    [statusCode |-> 400, error |-> "Bad Request", message |-> "Invalid body",
     hasResult |-> FALSE, result |-> <<>>]
\* lines 110-113
ScorePosted ==
    [statusCode |-> 200, error |-> "", message |-> "Your score has been posted",
     hasResult |-> FALSE, result |-> <<>>]
\* line 76
BoardResponse(board) ==
    [statusCode |-> 200, error |-> "", message |-> "", hasResult |-> TRUE, result |-> board]
\* a rejected store operation propagates out of the async handler
InternalError ==
    [statusCode |-> 500, error |-> "Internal Server Error", message |-> "store error",
     hasResult |-> FALSE, result |-> <<>>]

(***************************************************************************)
(* A client's request: pc is "idle" (none), "find" (GET suspended at line  *)
(* 62), "insert" (PUT suspended at line 104) or "done" (answered, the      *)
(* reply not yet taken by the client).  ops counts the store operations    *)
(* issued for it.  History: seen is the collection a find read, docId the  *)
(* identifier an insert produced, failed whether the store operation was   *)
(* rejected, peers the clients whose pending insert overlapped this        *)
(* request's insert.                                                       *)
(***************************************************************************)
IdleReq ==
    [pc |-> "idle", method |-> "", body |-> NullBody, ops |-> 0, resp |-> NoResponse,
     seen |-> <<>>, docId |-> 0, failed |-> FALSE, peers |-> {}]

\* Client c starts the request r.
Start(c, r) == [req EXCEPT ![c] = r]

Init ==
    /\ boot = "start"
    /\ conn = "closed"
    /\ routes = {}
    /\ store \in Seeds
    /\ store0 = store
    /\ req = [c \in Clients |-> IdleReq]
    /\ inserted = 0

(***************************************************************************)
(* Bootstrap, lines 47-120.                                                *)
(***************************************************************************)
\* A bootstrap that does not wait for the connection.
ConnectNoAwait ==
    /\ boot = "start"
    /\ conn' = "connecting"
    /\ routes' = {"GET", "PUT"}
    /\ boot' = "binding"
    /\ UNCHANGED <<store, req, store0, inserted>>

\* line 49: connection.connect() is called and awaited
Connect ==
    /\ boot = "start"
    /\ conn' = "connecting"
    /\ boot' = "await"
    /\ UNCHANGED <<routes, store, req, store0, inserted>>

\* lines 52-117: the await resumes; the collection handle is bound, the two
\* routes are registered and listen(2000) is called
ConnectResolved ==
    /\ boot = "await"
    /\ conn = "connecting"
    /\ conn' = "connected"
    /\ routes' = {"GET", "PUT"}
    /\ boot' = "binding"
    /\ UNCHANGED <<store, req, store0, inserted>>

\* line 49 rejects: the async function ends there
ConnectRejected ==
    /\ boot = "await"
    /\ conn = "connecting"
    /\ conn' = "failed"
    /\ boot' = "crashed"
    /\ UNCHANGED <<routes, store, req, store0, inserted>>

\* lines 117-119: the port is bound
ListenBound ==
    /\ boot = "binding"
    /\ boot' = "listening"
    /\ UNCHANGED <<conn, routes, store, req, store0, inserted>>

\* lines 117-119: the port cannot be bound; the callback gets the error
ListenError ==
    /\ boot = "binding"
    /\ boot' = "bindError"
    /\ UNCHANGED <<conn, routes, store, req, store0, inserted>>

Accepting(c, route) ==
    /\ boot = "listening"
    /\ route \in routes
    /\ req[c].pc = "idle"

\* The client takes the reply: the handler invocation is over, and the
\* other clients' history no longer refers to it.
Receive(c) ==
    /\ req[c].pc = "done"
    /\ req' = [d \in Clients |->
                 IF d = c THEN IdleReq ELSE [req[d] EXCEPT !.peers = @ \ {c}]]
    /\ UNCHANGED <<boot, conn, routes, store, store0, inserted>>

(***************************************************************************)
(* GET /leaderboard, lines 59-77.                                          *)
(***************************************************************************)
Get(c) ==
    /\ Accepting(c, "GET")
    /\ req' = Start(c, [IdleReq EXCEPT !.pc = "find", !.method = "GET", !.ops = 1])
    /\ UNCHANGED <<boot, conn, routes, store, store0, inserted>>

\* A handler that trims the collection to the entries it returns.
FindResolvedPruning(c) ==
    /\ req[c].pc = "find"
    /\ \E board \in ToArray(store) :
         /\ req' = [req EXCEPT ![c].pc = "done", ![c].resp = BoardResponse(board),
                               ![c].seen = store]
         /\ store' = SubSeq(store, 1, IF Len(store) < LimitCount THEN Len(store) ELSE LimitCount)
    /\ UNCHANGED <<boot, conn, routes, store0, inserted>>

FindResolved(c) ==
    /\ req[c].pc = "find"
    /\ \E board \in ToArray(store) :
         req' = [req EXCEPT ![c].pc = "done", ![c].resp = BoardResponse(board),
                            ![c].seen = store]
    /\ UNCHANGED <<boot, conn, routes, store, store0, inserted>>

\* A handler that issues the find again when it fails.
FindRejectedRetry(c) ==
    /\ req[c].pc = "find"
    /\ req' = [req EXCEPT ![c] =
                 IF req[c].ops < 2 THEN [req[c] EXCEPT !.ops = 2, !.failed = TRUE]
                 ELSE [req[c] EXCEPT !.pc = "done", !.resp = InternalError, !.failed = TRUE]]
    /\ UNCHANGED <<boot, conn, routes, store, store0, inserted>>

FindRejected(c) ==
    /\ req[c].pc = "find"
    /\ req' = [req EXCEPT ![c].pc = "done", ![c].resp = InternalError, ![c].failed = TRUE]
    /\ UNCHANGED <<boot, conn, routes, store, store0, inserted>>

(***************************************************************************)
(* PUT /leaderboard, lines 84-114.                                         *)
(***************************************************************************)
Pending == { d \in Clients : req[d].pc = "insert" }

Put(c, body) ==
    /\ Accepting(c, "PUT")
    /\ IF InvalidBody(body)
       THEN req' = Start(c, [IdleReq EXCEPT !.pc = "done", !.method = "PUT", !.body = body,
                                            !.resp = InvalidBodyError])
       ELSE /\ inserted + Cardinality(Pending) < MaxInserts
            /\ req' = Start(c, [IdleReq EXCEPT !.pc = "insert", !.method = "PUT",
                                               !.body = body, !.ops = 1,
                                               !.peers = Pending \ {c}])
    /\ UNCHANGED <<boot, conn, routes, store, store0, inserted>>

InsertResolved(c) ==
    /\ req[c].pc = "insert"
    /\ store' = InsertOne(store, NewEntry(req[c].body))
    /\ inserted' = inserted + 1
    /\ req' = [req EXCEPT ![c].pc = "done", ![c].resp = ScorePosted,
                          ![c].docId = Len(store) + 1]
    /\ UNCHANGED <<boot, conn, routes, store0>>

InsertRejected(c) ==
    /\ req[c].pc = "insert"
    /\ req' = [req EXCEPT ![c].pc = "done", ![c].resp = InternalError, ![c].failed = TRUE]
    /\ UNCHANGED <<boot, conn, routes, store, store0, inserted>>

Next ==
    \/ Connect
    \/ ConnectResolved
    \/ ConnectRejected
    \/ ListenBound
    \/ ListenError
    \/ \E c \in Clients : Get(c)
    \/ \E c \in Clients : FindResolved(c)
    \/ \E c \in Clients : FindRejected(c)
    \/ \E c \in Clients : \E body \in Bodies : Put(c, body)
    \/ \E c \in Clients : InsertResolved(c)
    \/ \E c \in Clients : InsertRejected(c)
    \/ \E c \in Clients : Receive(c)

Spec == Init /\ [][Next]_vars

(***************************************************************************)
(* Vocabulary of the properties.                                           *)
(***************************************************************************)
Count(seq, e) == Cardinality({ i \in DOMAIN seq : seq[i] = e })
Scores(seq) == [i \in DOMAIN seq |-> seq[i].score.n]
Extends(later, earlier) ==
    /\ Len(later) >= Len(earlier)
    /\ SubSeq(later, 1, Len(earlier)) = earlier
GotBoard(c) ==
    /\ req[c].pc = "done"
    /\ req[c].method = "GET"
    /\ req[c].resp.statusCode = 200
Posted200(c) ==
    /\ req[c].pc = "done"
    /\ req[c].method = "PUT"
    /\ req[c].resp.statusCode = 200
\* The body fails the type check the interface document states.
IllTyped(body) ==
    \/ body.kind # "object"
    \/ body.name.t # "string"
    \/ body.score.t # "number"

(***************************************************************************)
(* C1: a PUT whose body is null, or whose name is not a string, or whose   *)
(* score is not a number, is answered 400 with {statusCode: 400, error:    *)
(* "Bad Request", message: "Invalid body"}; no insert is issued and the    *)
(* collection is the same after the request as before it.                  *)
(***************************************************************************)
C1_InvalidBodyRejected ==
    [][\A c \in Clients :
         ( /\ req[c].pc = "idle"
           /\ req'[c].method = "PUT"
           /\ IllTyped(req'[c].body) )
         => ( /\ req'[c].pc = "done"
              /\ req'[c].ops = 0
              /\ req'[c].resp.statusCode = 400
              /\ req'[c].resp.error = "Bad Request"
              /\ req'[c].resp.message = "Invalid body"
              /\ ~req'[c].resp.hasResult
              /\ store' = store )]_vars

C1_Witness ==
    \E c \in Clients :
        /\ req[c].pc = "done"
        /\ req[c].method = "PUT"
        /\ req[c].body = Obj(Str("X"), Undefined, Undefined)
        /\ req[c].resp.statusCode = 400
        /\ Len(store) = Len(Seed9) + 1

(***************************************************************************)
(* C2: a successful GET returns at most 10 entries, ordered by score       *)
(* descending.                                                             *)
(***************************************************************************)
C2_AtMostTenSortedDesc ==
    \A c \in Clients :
        GotBoard(c) =>
            LET r == req[c].resp.result
            IN  /\ req[c].resp.hasResult
                /\ Len(r) <= 10
                /\ \A i \in 1..(Len(r) - 1) : r[i].score.n >= r[i + 1].score.n

C2_Witness ==
    \E c \in Clients :
        /\ GotBoard(c)
        /\ Len(req[c].seen) = 11
        /\ Len(req[c].resp.result) = 10
        /\ req[c].resp.result[1].score.n > req[c].resp.result[10].score.n

(***************************************************************************)
(* C3: with n stored entries a successful GET returns exactly min(10, n)   *)
(* of them (none more often than it is stored), every entry left out has a *)
(* score no greater than any returned score, and with the 15 entries of    *)
(* distinct scores the result is exactly the 10 highest.                   *)
(***************************************************************************)
TenHighestOfSeed15 ==
    <<Entry("P", 150), Entry("P", 140), Entry("P", 130), Entry("P", 120),
      Entry("P", 110), Entry("P", 100), Entry("P", 80), Entry("P", 70),
      Entry("P", 60), Entry("P", 55)>>

C3_TopEntriesOnly ==
    \A c \in Clients :
        GotBoard(c) =>
            LET r == req[c].resp.result
                all == [i \in DOMAIN req[c].seen |->
                          [name |-> req[c].seen[i].name, score |-> req[c].seen[i].score,
                           rank |-> req[c].seen[i].rank]]
            IN  /\ Len(r) = IF Len(all) < 10 THEN Len(all) ELSE 10
                /\ \A k \in DOMAIN r : Count(r, r[k]) <= Count(all, r[k])
                /\ \A i \in DOMAIN all :
                       Count(r, all[i]) < Count(all, all[i])
                           => \A k \in DOMAIN r : all[i].score.n <= r[k].score.n
                /\ (req[c].seen = Seed15 => r = TenHighestOfSeed15)

C3_Witness ==
    \E c \in Clients :
        /\ GotBoard(c)
        /\ req[c].seen = Seed15
        /\ req[c].resp.result = TenHighestOfSeed15

(***************************************************************************)
(* C4: a PUT with a string name and a number score whose insert succeeds   *)
(* adds exactly one document, carrying the body's name and score unchanged *)
(* and no other field of the body, changes no existing document, and is    *)
(* answered 200 {statusCode: 200, message: "Your score has been posted"};  *)
(* the same {name, score} submitted twice is stored twice.                 *)
(***************************************************************************)
C4_ValidPutInsertsExactlyOne ==
    [][\A c \in Clients :
       /\ ( /\ req[c].pc = "idle"
            /\ req'[c].method = "PUT"
            /\ ~IllTyped(req'[c].body) )
          => ( /\ req'[c].pc = "insert"
               /\ req'[c].ops = 1
               /\ store' = store )
       /\ ( /\ req[c].pc = "insert"
            /\ req'[c].pc = "done"
            /\ ~req'[c].failed )
         => ( /\ ~IllTyped(req[c].body)
              /\ Len(store') = Len(store) + 1
              /\ SubSeq(store', 1, Len(store)) = store
              /\ store'[Len(store')].name = req[c].body.name
              /\ store'[Len(store')].score = req[c].body.score
              /\ store'[Len(store')].rank = Undefined
              /\ \A i \in 1..Len(store) : store[i].id # store'[Len(store')].id
              /\ req'[c].resp.statusCode = 200
              /\ req'[c].resp.message = "Your score has been posted"
              /\ req'[c].resp.error = ""
              /\ ~req'[c].resp.hasResult )]_vars

C4_Witness ==
    /\ Posted200(1) /\ req[1].body = Obj(Str("Zed"), Num(-5), Num(1))
    /\ Posted200(2) /\ req[2].body = req[1].body
    /\ store = Append(Append(Seed9, Doc(10, Entry("Zed", -5))), Doc(11, Entry("Zed", -5)))

(***************************************************************************)
(* C5: once a valid submission has been answered 200, every later GET      *)
(* reflects it whenever fewer than 10 other stored entries have a score    *)
(* greater than or equal to its score; {Alice, 50} then {Bob, 90} posted   *)
(* to an empty collection makes GET return [{Bob, 90}, {Alice, 50}].       *)
(***************************************************************************)
C5_PostedEntryReflected ==
    \A c \in Clients :
        GotBoard(c) =>
            LET r == req[c].resp.result
                seen == req[c].seen
            IN  /\ \A p \in DOMAIN seen :
                       ( /\ p > Len(store0)
                         /\ Cardinality({ i \in DOMAIN seen :
                                i # p /\ seen[i].score.n >= seen[p].score.n }) < 10 )
                       => \E k \in DOMAIN r :
                              /\ r[k].name = seen[p].name
                              /\ r[k].score = seen[p].score
                /\ ( seen = <<Doc(1, Entry("Alice", 50)), Doc(2, Entry("Bob", 90))>>
                       => r = <<Entry("Bob", 90), Entry("Alice", 50)>> )

C5_Witness ==
    \E c, d \in Clients :
        /\ GotBoard(c)
        /\ Posted200(d)
        /\ req[d].body = Obj(Str("Bob"), Num(90), Undefined)
        /\ req[d].docId = 11
        /\ Len(req[c].seen) = 11
        /\ req[c].seen[10].score.n = -5
        /\ \E k \in DOMAIN req[c].resp.result : req[c].resp.result[k] = Entry("Bob", 90)
        /\ \A k \in DOMAIN req[c].resp.result : req[c].resp.result[k] # Entry("Zed", -5)

(***************************************************************************)
(* C6 as stated: a GET, successful or failed, leaves the collection        *)
(* unchanged, and two successful GETs with no write between them return    *)
(* the same multiset of entries.                                           *)
(***************************************************************************)
GetLeavesStore ==
    \A c \in Clients : (req[c].pc = "find" /\ req'[c].pc = "done") => store' = store

SameMultiset ==
    \A c, d \in Clients :
        (GotBoard(c) /\ GotBoard(d) /\ req[c].seen = req[d].seen)
            => \A k \in DOMAIN req[c].resp.result :
                   Count(req[c].resp.result, req[c].resp.result[k])
                       = Count(req[d].resp.result, req[c].resp.result[k])

C6_AsStated == [][GetLeavesStore]_vars /\ []SameMultiset

(***************************************************************************)
(* C6 amended: a GET, successful or failed, leaves the collection          *)
(* unchanged, and two successful GETs with no write between them return    *)
(* the same sequence of scores and the same multiset of entries, except    *)
(* that when more than 10 entries are stored the entries whose score       *)
(* equals the lowest returned score may differ.                            *)
(***************************************************************************)
SameUpToCutoffTies ==
    \A c, d \in Clients :
        (GotBoard(c) /\ GotBoard(d) /\ req[c].seen = req[d].seen)
            => LET r1 == req[c].resp.result
                   r2 == req[d].resp.result
               IN  /\ Scores(r1) = Scores(r2)
                   /\ \A k \in DOMAIN r1 :
                          ( \/ Len(req[c].seen) <= 10
                            \/ r1[k].score.n > r1[Len(r1)].score.n )
                          => Count(r1, r1[k]) = Count(r2, r1[k])

C6_ReadOnlyRepeatable == [][GetLeavesStore]_vars /\ []SameUpToCutoffTies

\* Eleven entries stored, three of them tied at the cut-off score.
C6_Witness ==
    /\ GotBoard(1) /\ GotBoard(2)
    /\ req[1].seen = req[2].seen
    /\ store = req[1].seen
    /\ Len(store) = 11
    /\ req[1].resp.result[10] = Entry("Carol", 50)
    /\ Count(req[2].resp.result, Entry("Carol", 50)) = 0

(***************************************************************************)
(* C7: two valid PUTs in flight at once can be persisted in either order,  *)
(* and once both are answered 200 the collection holds both submissions    *)
(* on top of everything stored before, identical bodies included.          *)
(***************************************************************************)
C7_ConcurrentPutsBothStored ==
    \A c, d \in Clients :
        (c # d /\ Posted200(c) /\ Posted200(d)) =>
            /\ Extends(store, store0)
            /\ req[c].docId # req[d].docId
            /\ \A x \in {c, d} :
                   /\ req[x].docId \in (Len(store0) + 1)..Len(store)
                   /\ store[req[x].docId].name = req[x].body.name
                   /\ store[req[x].docId].score = req[x].body.score

\* The insert issued second is persisted first, and the bodies are identical.
C7_Witness ==
    /\ Posted200(1) /\ Posted200(2)
    /\ req[1].peers = {} /\ req[2].peers = {1}
    /\ req[2].docId < req[1].docId
    /\ req[1].body = Obj(Str("Alice"), Num(50), Undefined)
    /\ req[2].body = req[1].body

(***************************************************************************)
(* C8: the connection is established before the collection handle is       *)
(* bound, the routes are registered and the server listens; no request is  *)
(* handled and no store operation is issued before the connection attempt  *)
(* has succeeded, and if it fails or never completes the server never      *)
(* listens.                                                                *)
(***************************************************************************)
C8_ConnectBeforeServe ==
    ( \/ boot \in {"binding", "listening", "bindError"}
      \/ routes # {}
      \/ inserted > 0
      \/ \E c \in Clients : req[c].pc # "idle" )
    => conn = "connected"

C8_Witness ==
    /\ boot = "listening"
    /\ conn = "connected"
    /\ \E c \in Clients : GotBoard(c)
    /\ \E c \in Clients : Posted200(c)

(***************************************************************************)
(* C9: a request issues at most one store operation and never retries it;  *)
(* a failed find or insert is answered with an internal error (500), a     *)
(* failed GET carries no result and a failed PUT never the 200 payload.    *)
(***************************************************************************)
C9_OneStoreOperationNoRetry ==
    \A c \in Clients :
        /\ req[c].ops <= 1
        /\ req[c].failed =>
               /\ req[c].pc = "done"
               /\ req[c].ops = 1
               /\ req[c].resp.statusCode = 500
               /\ ~req[c].resp.hasResult
               /\ req[c].resp.result = <<>>
               /\ req[c].resp # ScorePosted
               /\ req[c].docId = 0

C9_Witness ==
    /\ req[1].failed /\ req[1].method = "GET" /\ req[1].resp.statusCode = 500
    /\ req[2].failed /\ req[2].method = "PUT" /\ req[2].resp.statusCode = 500
    /\ store = store0

(***************************************************************************)
(* C10: the collection is append-only: every step keeps every stored       *)
(* document as it is, and the collection grows by exactly the number of    *)
(* inserts that succeeded.                                                 *)
(***************************************************************************)
C10_AppendOnly ==
    [][ /\ Extends(store', store)
        /\ Len(store') - Len(store) = inserted' - inserted ]_vars

C10_Witness ==
    /\ Len(store) = Len(store0) + 2
    /\ inserted = 2
    /\ Len(store0) = 15
    /\ \E c \in Clients : GotBoard(c)

====
